---- MODULE Spec2Model ----
(***************************************************************************)
(* LRCP line-reversal server of protohackers-rs.                           *)
(*                                                                         *)
(*   src/src/line_reversal.rs       the dispatcher: the session table and  *)
(*                                  the routing of client packets          *)
(*   src/src/line_reversal/lrcp.rs  LrcpSession (one task per session) and *)
(*                                  send_messages (one retransmission task *)
(*                                  per flushed line)                      *)
(*   src/src/line_reversal/protocol.rs  Packet: to_bytes and the TryFrom   *)
(*                                  the dispatcher reads datagrams with    *)
(*   src/src/line_reversal/message.rs   Message: to_packet and the nom     *)
(*                                  parser Message::parse                  *)
(*   src/src/insecure_sockets/protocol.rs  Cipher: encode_byte and         *)
(*                                  decode_byte                            *)
(*   src/src/insecure_sockets/session.rs, server.rs  the two               *)
(*                                  handle_message functions of toy jobs   *)
(*                                                                         *)
(* The dispatcher spawns lrcp::LrcpClient, a name lrcp.rs does not define; *)
(* the session task it starts is modelled by the session type lrcp.rs does *)
(* define, LrcpSession, in the state LrcpSession::new builds.              *)
(*                                                                         *)
(* Bytes and chars are integers: a byte is its value, a char is its code   *)
(* point. A String is a sequence of chars, a Vec<u8> a sequence of bytes.  *)
(* The u32 counters stay far below 2^32 within the bounds, and every       *)
(* socket.send_to succeeds, except in SpecSendFails.                       *)
(*                                                                         *)
(*   Spec          one LrcpSession whose channel is fed any message by a   *)
(*                 holder of its Sender, and its retransmission tasks      *)
(*   SpecDispatch  the dispatcher of line_reversal.rs feeding the sessions *)
(*                 it spawns                                               *)
(*   SpecWire      the dispatcher reading datagrams off the socket with    *)
(*                 Packet::try_from, its sends to the sessions' bounded    *)
(*                 channels, and the sessions it spawns                    *)
(*   SpecTimed     Spec with the passing of CONNECTION_TIMEOUT             *)
(*   SpecSendFails Spec with handlings whose socket.send_to returns Err    *)
(*   SpecCodec     messages and datagrams taken through both codecs        *)
(*   SpecChunk     lines taken through reverse_line and chunk_lines        *)
(*   SpecAddress   SpecWire with one session id and datagrams from two     *)
(*                 peer addresses                                          *)
(*   SpecInternal  the dispatcher with its internal channel, on which the  *)
(*                 session tasks send packets                              *)
(*   SpecCipher    bytes encoded by one Cipher and decoded by another      *)
(*   SpecToys      messages of toy jobs through both handle_message        *)
(*                                                                         *)
(* An integer field on the wire is a digit string compared with the type's *)
(* limits digit by digit, so that no value above 2^31 - 1 is computed.     *)
(***************************************************************************)
EXTENDS Integers, Sequences, FiniteSets, TLC

VARIABLES
    stream,       \* the byte stream the peer is sending (its Data chunks are slices of it)
    sessions,     \* the dispatcher's table: SessionId -> [address, task]
    tasks,        \* the spawned LrcpSession tasks, in spawn order
    supervisors,  \* the spawned send_messages tasks, in spawn order
    out,          \* the datagrams the last step handed to the socket, in order
    step,         \* what the last step was: the operation, its task, its message, the task before it
    dispatcher,   \* where the dispatcher's loop is, and the packet it is sending to a queue
    codec,        \* a packet on its way through to_bytes / to_packet and try_from / parse
    reversal,     \* a line on its way through reverse_line and chunk_lines
    rx,           \* the dispatcher's internal channel: the packets sent on main_tx, in order
    ciphers,      \* two Ciphers of insecure_sockets and the bytes that pass between them
    request       \* a line of toy jobs on its way through handle_message

vars ==
    <<stream, sessions, tasks, supervisors, out, step, dispatcher, codec, reversal,
      rx, ciphers, request>>

----------------------------------------------------------------------------
(* Bounds of the model *)

MaxStream == 2    \* length of the peer's stream
MaxQueue == 2     \* messages waiting in one session's queue
MaxAck == 1       \* largest position a peer Ack carries
MaxTasks == 2     \* session tasks the dispatcher spawns in one run
MaxChannel == 1   \* packets one session's channel holds (CHANNEL_SIZE, 100 in the program)
MaxData == 2      \* length of the payload of a Data message at the codecs
MaxAffix == 1     \* chars of a line before, and after, its run of 'a'
MaxSlack == 3     \* how far from CHUNK_SIZE the length of a long run of 'a' lies
MaxInternal == 1  \* packets the dispatcher's internal channel holds (unbounded in the program)
MaxOperations == 2  \* operations of a cipher
MaxPlain == 2     \* bytes encoded by one Cipher
MaxJobs == 2      \* toy jobs in one message

(* Program constants *)

NL == 10          \* b'\n'
REPL == 65533     \* U+FFFD, what from_utf8_lossy puts for an invalid byte
CHUNK_SIZE == 900
COMMA == 44       \* ',' between two toy jobs

\* 'a', ' ', '\n', and 0xFF, a byte that is valid nowhere in UTF-8
Bytes == {97, 32, NL, 255}

SessionIds == {1, 2}
Addrs == {"A", "B"}

----------------------------------------------------------------------------
(* Sequence helpers *)

Min(a, b) == IF a < b THEN a ELSE b
Max(a, b) == IF a > b THEN a ELSE b

Drop(s, n) == SubSeq(s, n + 1, Len(s))
Take(s, n) == SubSeq(s, 1, n)

Reverse(s) == [i \in 1..Len(s) |-> s[Len(s) + 1 - i]]

Contains(s, x) == \E i \in 1..Len(s) : s[i] = x

----------------------------------------------------------------------------
(* Strings: UTF-8 conversions and the line functions of lrcp.rs *)

IsContinuation(b) == b >= 128 /\ b <= 191

\* String::from_utf8_lossy on the byte values the model produces: ASCII bytes,
\* the lead byte 0xEF of a three-byte sequence (U+FFFD is EF BF BD), continuation
\* bytes, and 0xFF. Each maximal invalid part becomes one U+FFFD. The decoder
\* reads from left to right; with these bytes, what it does at a byte depends on
\* the two bytes before it and the two after it only, so the result is given
\* byte by byte and lines of CHUNK_SIZE bytes can be converted.

\* The byte at i is the second or third byte of a sequence that began with 0xEF
in_sequence(b, i) ==
    /\ IsContinuation(b[i])
    /\ \/ i > 1 /\ b[i - 1] = 239
       \/ i > 2 /\ b[i - 2] = 239 /\ IsContinuation(b[i - 1])

\* The char the decoder makes of what begins at i
char_at(b, i) ==
    IF b[i] < 128 THEN b[i]
    ELSE IF /\ b[i] = 239 /\ i + 2 <= Len(b)
            /\ IsContinuation(b[i + 1]) /\ IsContinuation(b[i + 2])
         THEN (b[i] - 224) * 4096 + (b[i + 1] - 128) * 64 + (b[i + 2] - 128)
    ELSE REPL

from_utf8_lossy(b) ==
    LET begins == SelectSeq([i \in 1..Len(b) |-> i], LAMBDA i : ~in_sequence(b, i))
    IN [k \in 1..Len(begins) |-> char_at(b, begins[k])]

\* str::as_bytes: the UTF-8 encoding of a string (one byte below U+0080, three
\* bytes for the code points U+0800..U+FFFF, which is where U+FFFD lies), each
\* char encoded by itself: the string is encoded half by half
RECURSIVE as_bytes(_)
as_bytes(str) ==
    IF str = <<>> THEN <<>>
    ELSE IF Len(str) = 1
         THEN (IF str[1] < 128 THEN <<str[1]>>
               ELSE <<224 + (str[1] \div 4096), 128 + ((str[1] \div 64) % 64),
                      128 + (str[1] % 64)>>)
    ELSE as_bytes(Take(str, Len(str) \div 2)) \o as_bytes(Drop(str, Len(str) \div 2))

\* char::is_whitespace on the chars of the model
IsWhitespace(c) == c \in {9, 10, 11, 12, 13, 32}

\* str::trim_end
RECURSIVE trim_end(_)
trim_end(str) ==
    IF str # <<>> /\ IsWhitespace(str[Len(str)]) THEN trim_end(Take(str, Len(str) - 1))
    ELSE str

\* str::split_inclusive('\n'): the pieces of str, each ending with its newline,
\* the last one without when str does not end with one
RECURSIVE split_inclusive(_)
split_inclusive(str) ==
    IF str = <<>> THEN <<>>
    ELSE IF Contains(str, NL)
         THEN LET i == CHOOSE k \in 1..Len(str) :
                           str[k] = NL /\ \A j \in 1..(k - 1) : str[j] # NL
              IN <<Take(str, i)>> \o split_inclusive(Drop(str, i))
    ELSE <<str>>

\* Mutant of the test below: every piece counts as a finished line
ends_with_newline_always(str) == TRUE

\* line.ends_with('\n')
ends_with_newline(str) == str # <<>> /\ str[Len(str)] = NL

reverse_line(line) == Reverse(trim_end(line)) \o <<NL>>

\* slice::chunks(CHUNK_SIZE)
RECURSIVE chunks(_)
chunks(b) ==
    IF b = <<>> THEN <<>>
    ELSE <<Take(b, Min(CHUNK_SIZE, Len(b)))>> \o chunks(Drop(b, Min(CHUNK_SIZE, Len(b))))

chunk_lines(line) ==
    LET cs == chunks(as_bytes(line))
    IN [i \in 1..Len(cs) |-> from_utf8_lossy(cs[i])]

----------------------------------------------------------------------------
(* Messages *)

new_connect(id) == [kind |-> "Connect", session |-> id, position |-> 0, data |-> <<>>]
new_close(id) == [kind |-> "Close", session |-> id, position |-> 0, data |-> <<>>]
new_ack(id, position) == [kind |-> "Ack", session |-> id, position |-> position, data |-> <<>>]
new_data(id, data, position) == [kind |-> "Data", session |-> id, position |-> position, data |-> data]

NoMessage == [kind |-> "None", session |-> 0, position |-> 0, data |-> <<>>]

\* A datagram handed to the socket: socket.send_to(&message.to_packet(), &address)
Datagram(address, message) == [to |-> address, message |-> message]

\* The Data chunks the peer can send: the non-empty slices of its stream
PeerData(id) ==
    { new_data(id, SubSeq(stream, r[1] + 1, r[2]), r[1]) :
          r \in { x \in (0..Len(stream)) \X (0..Len(stream)) : x[1] < x[2] } }

PeerMessages(id) ==
    {new_connect(id), new_close(id)}
        \cup { new_ack(id, p) : p \in 0..MaxAck }
        \cup PeerData(id)

----------------------------------------------------------------------------
(* The wire: Packet of protocol.rs and Message of message.rs               *)
(*                                                                         *)
(* The dispatcher reads and writes datagrams with Packet (try_from and     *)
(* to_bytes, i32 fields, no escaping); the session and its retransmission  *)
(* tasks write them with Message (to_packet, u32 fields, escaping), whose  *)
(* reader is Message::parse. Both are records of the shape new_data builds.*)

SLASH == 47       \* b'/'
BACKSLASH == 92   \* b'\\'
PLUS == 43        \* b'+'
MINUS == 45       \* b'-'
ZERO == 48        \* b'0'

\* Payload::to_kind_bytes
b_connect == <<99, 111, 110, 110, 101, 99, 116>>
b_data == <<100, 97, 116, 97>>
b_ack == <<97, 99, 107>>
b_close == <<99, 108, 111, 115, 101>>

to_kind_bytes(packet) ==
    CASE packet.kind = "Connect" -> b_connect
      [] packet.kind = "Data" -> b_data
      [] packet.kind = "Ack" -> b_ack
      [] packet.kind = "Close" -> b_close

\* &bytes[a..e], for a <= e
slice(bytes, a, e) == SubSeq(bytes, a + 1, e)

\* The index, counted from 0, of the first slash of bytes at or after from, and
\* -1 when there is none: from + bytes[from..].iter().position(|&x| x == b'/')
slash_position(bytes, from) ==
    IF \E i \in (from + 1)..Len(bytes) : bytes[i] = SLASH
    THEN (CHOOSE i \in (from + 1)..Len(bytes) :
              bytes[i] = SLASH /\ \A j \in (from + 1)..(i - 1) : bytes[j] # SLASH) - 1
    ELSE -1

IsDigit(c) == c >= ZERO /\ c <= ZERO + 9

\* Display of an integer: its decimal digits, after a '-' when it is negative
RECURSIVE digits_of(_)
digits_of(n) == IF n < 10 THEN <<ZERO + n>> ELSE digits_of(n \div 10) \o <<ZERO + (n % 10)>>

to_string(n) == IF n < 0 THEN <<MINUS>> \o digits_of(0 - n) ELSE digits_of(n)

\* The decimal digits of i32::MAX, of the magnitude of i32::MIN and of u32::MAX
I32_MAX == <<2, 1, 4, 7, 4, 8, 3, 6, 4, 7>>
I32_MIN == <<2, 1, 4, 7, 4, 8, 3, 6, 4, 8>>
U32_MAX == <<4, 2, 9, 4, 9, 6, 7, 2, 9, 5>>

RECURSIVE strip_zeros(_)
strip_zeros(digits) ==
    IF digits # <<>> /\ digits[1] = ZERO THEN strip_zeros(Tail(digits)) ELSE digits

\* The number written by digits is larger than the number written by limit:
\* where the checked multiplication or addition of the parse overflows
exceeds(digits, limit) ==
    LET d == strip_zeros(digits)
    IN \/ Len(d) > Len(limit)
       \/ /\ Len(d) = Len(limit)
          /\ \E i \in 1..Len(d) :
                 /\ d[i] - ZERO > limit[i]
                 /\ \A j \in 1..(i - 1) : d[j] - ZERO = limit[j]

RECURSIVE value_of(_)
value_of(digits) ==
    IF digits = <<>> THEN 0
    ELSE value_of(Take(digits, Len(digits) - 1)) * 10 + (digits[Len(digits)] - ZERO)

ParseOk(value) == [ok |-> TRUE, value |-> value]
ParseErr == [ok |-> FALSE, value |-> 0]

\* str::parse of an integer type: an empty string and a lone sign are errors,
\* one leading '+' is accepted, one leading '-' by a signed type, every other
\* char has to be a digit, and the value has to fit the type
parse_int(str, signed, max, min) ==
    IF str = <<>> THEN ParseErr
    ELSE IF Len(str) = 1 /\ str[1] \in {PLUS, MINUS} THEN ParseErr
    ELSE LET negative == signed /\ str[1] = MINUS
             digits == IF str[1] = PLUS \/ negative THEN Tail(str) ELSE str
         IN IF \E i \in 1..Len(digits) : ~IsDigit(digits[i]) THEN ParseErr
            ELSE IF exceeds(digits, IF negative THEN min ELSE max) THEN ParseErr
            ELSE ParseOk(IF negative THEN 0 - value_of(digits) ELSE value_of(digits))

parse_i32(str) == parse_int(str, TRUE, I32_MAX, I32_MIN)
parse_u32(str) == parse_int(str, FALSE, U32_MAX, U32_MAX)

\* str::from_utf8: an error unless the bytes are valid UTF-8, which is when
\* from_utf8_lossy has nothing to replace
from_utf8(bytes) ==
    LET str == from_utf8_lossy(bytes)
    IN IF as_bytes(str) = bytes THEN [ok |-> TRUE, str |-> str] ELSE [ok |-> FALSE, str |-> <<>>]

\* TryFrom<&[u8]> for SessionId
SessionId_try_from(bytes) == parse_i32(from_utf8_lossy(bytes))

\* What a decoder makes of a datagram: a packet, an error, or a panic
Decoded(packet) == [result |-> "ok", packet |-> packet]
DecodeErr == [result |-> "err", packet |-> NoMessage]
DecodePanic == [result |-> "panic", packet |-> NoMessage]

\* The "data" arm of Packet::try_from
try_from_data(bytes, session_id, third_slash) ==
    LET len == Len(bytes)
        fourth_slash == slash_position(bytes, third_slash + 1)
    IN IF fourth_slash = -1 THEN DecodeErr
       ELSE IF fourth_slash = len - 1 THEN DecodeErr
       ELSE LET str == from_utf8(slice(bytes, third_slash + 1, fourth_slash))
                pos == parse_i32(str.str)
            IN IF ~str.ok \/ ~pos.ok THEN DecodeErr
               ELSE Decoded(new_data(session_id, slice(bytes, fourth_slash + 1, len - 1),
                                     pos.value))

\* The "ack" arm of Packet::try_from. &bytes[third_slash + 1..len - 1] is a
\* range that starts after its end when the third slash is the last byte, and
\* indexing a slice by such a range panics.
try_from_ack(bytes, session_id, third_slash) ==
    LET len == Len(bytes)
    IN IF third_slash + 1 > len - 1 THEN DecodePanic
       ELSE LET str == from_utf8(slice(bytes, third_slash + 1, len - 1))
                pos == parse_i32(str.str)
            IN IF ~str.ok \/ ~pos.ok THEN DecodeErr
               ELSE Decoded(new_ack(session_id, pos.value))

\* TryFrom<&[u8]> for Packet
Packet_try_from(bytes) ==
    LET len == Len(bytes)
    IN IF len = 0 THEN DecodeErr
       ELSE IF bytes[1] # SLASH \/ bytes[len] # SLASH THEN DecodeErr
       ELSE LET second_slash == slash_position(bytes, 1)
            IN IF second_slash = -1 THEN DecodeErr
               ELSE LET third_slash == slash_position(bytes, second_slash + 1)
                    IN IF third_slash = -1 THEN DecodeErr
                       ELSE LET kind == slice(bytes, 1, second_slash)
                                session_id == SessionId_try_from(
                                                  slice(bytes, second_slash + 1, third_slash))
                            IN IF ~session_id.ok THEN DecodeErr
                               ELSE CASE kind = b_connect -> Decoded(new_connect(session_id.value))
                                      [] kind = b_data ->
                                             try_from_data(bytes, session_id.value, third_slash)
                                      [] kind = b_ack ->
                                             try_from_ack(bytes, session_id.value, third_slash)
                                      [] kind = b_close -> Decoded(new_close(session_id.value))
                                      [] OTHER -> DecodeErr

\* Packet::to_bytes
Packet_to_bytes(packet) ==
    <<SLASH>> \o to_kind_bytes(packet) \o <<SLASH>> \o to_string(packet.session)
        \o (CASE packet.kind = "Data" ->
                     <<SLASH>> \o to_string(packet.position) \o <<SLASH>> \o packet.data
              [] packet.kind = "Ack" -> <<SLASH>> \o to_string(packet.position)
              [] OTHER -> <<>>)
        \o <<SLASH>>

\* Mutant of the escape below: the slash goes out as it is
escape_byte_backslash_only(x) == IF x = BACKSLASH THEN <<BACKSLASH, BACKSLASH>> ELSE <<x>>

\* The closure of to_packet's flat_map
escape_byte(x) ==
    IF x = BACKSLASH THEN <<BACKSLASH, BACKSLASH>>
    ELSE IF x = SLASH THEN <<BACKSLASH, SLASH>>
    ELSE <<x>>

RECURSIVE escape(_)
escape(data) == IF data = <<>> THEN <<>> ELSE escape_byte(data[1]) \o escape(Tail(data))

\* Message::to_packet
Message_to_packet(message) ==
    CASE message.kind = "Connect" ->
             <<SLASH>> \o b_connect \o <<SLASH>> \o to_string(message.session) \o <<SLASH>>
      [] message.kind = "Close" ->
             <<SLASH>> \o b_close \o <<SLASH>> \o to_string(message.session) \o <<SLASH>>
      [] message.kind = "Ack" ->
             <<SLASH>> \o b_ack \o <<SLASH>> \o to_string(message.session)
                 \o <<SLASH>> \o to_string(message.position) \o <<SLASH>>
      [] message.kind = "Data" ->
             <<SLASH>> \o b_data \o <<SLASH>> \o to_string(message.session)
                 \o <<SLASH>> \o to_string(message.position) \o <<SLASH>>
                 \o escape(message.data) \o <<SLASH>>

\* is_not(set) and digit1 take the longest prefix of the input with no byte of
\* the set, or of digits only; this is its length (they fail when it is 0)
RECURSIVE prefix_not(_, _)
prefix_not(input, set) ==
    IF input = <<>> \/ input[1] \in set THEN 0 ELSE 1 + prefix_not(Tail(input), set)

RECURSIVE prefix_digits(_)
prefix_digits(input) ==
    IF input = <<>> \/ ~IsDigit(input[1]) THEN 0 ELSE 1 + prefix_digits(Tail(input))

NomOk(value, rest) == [ok |-> TRUE, value |-> value, rest |-> rest]
NomErr == [ok |-> FALSE, value |-> 0, rest |-> <<>>]

\* parse_u32_from_digits
parse_u32_from_digits(input) ==
    LET n == prefix_digits(input)
        number == parse_u32(Take(input, n))
    IN IF n = 0 THEN NomErr
       ELSE IF ~number.ok THEN NomErr
       ELSE NomOk(number.value, Drop(input, n))

\* delimited(char('/'), parse_u32_from_digits, char('/'))
delimited_u32(input) ==
    IF input = <<>> \/ input[1] # SLASH THEN NomErr
    ELSE LET number == parse_u32_from_digits(Tail(input))
         IN IF ~number.ok THEN NomErr
            ELSE IF number.rest = <<>> \/ number.rest[1] # SLASH THEN NomErr
            ELSE NomOk(number.value, Tail(number.rest))

\* nom's escaped_transform(is_not("\\/"), '\\', alt((tag("\\"), tag("/")))), from
\* index on, res being what it has built so far. Unescaped bytes are taken as
\* they are, a backslash has to be followed by a backslash or a slash, which is
\* taken; it ends at the end of the input or at the first slash that is not
\* escaped, and it is an error when it ends having consumed nothing of a
\* non-empty input.
RECURSIVE escaped_transform(_, _, _)
escaped_transform(input, index, res) ==
    IF index >= Len(input) THEN NomOk(res, Drop(input, index))
    ELSE LET remainder == Drop(input, index)
             n == prefix_not(remainder, {BACKSLASH, SLASH})
         IN IF n > 0
            THEN IF n = Len(remainder) THEN NomOk(res \o remainder, <<>>)
                 ELSE escaped_transform(input, index + n, res \o Take(remainder, n))
            ELSE IF remainder[1] = BACKSLASH
                 THEN LET next == index + 1
                      IN IF next >= Len(input) THEN NomErr
                         ELSE IF input[next + 1] \in {BACKSLASH, SLASH}
                              THEN IF next + 1 = Len(input)
                                   THEN NomOk(res \o <<input[next + 1]>>, <<>>)
                                   ELSE escaped_transform(input, next + 1,
                                                          res \o <<input[next + 1]>>)
                         ELSE NomErr
            ELSE IF index = 0 THEN NomErr
            ELSE NomOk(res, remainder)

\* Message::parse, which is parse_message with its error mapped. The kind is
\* read by delimited(char('/'), is_not("/"), char('/')) and its result is
\* unwrapped by expect, which panics when it is an error.
Message_parse(bytes) ==
    IF bytes = <<>> \/ bytes[1] # SLASH THEN DecodePanic
    ELSE LET n == prefix_not(Tail(bytes), {SLASH})
         IN IF n = 0 \/ Len(bytes) < n + 2 THEN DecodePanic
            ELSE LET message_kind == SubSeq(bytes, 2, n + 1)
                     session_id == parse_u32_from_digits(Drop(bytes, n + 2))
                 IN IF ~session_id.ok THEN DecodeErr
                    ELSE CASE message_kind = b_connect -> Decoded(new_connect(session_id.value))
                           [] message_kind = b_close -> Decoded(new_close(session_id.value))
                           [] message_kind = b_ack ->
                                  LET pos == delimited_u32(session_id.rest)
                                  IN IF ~pos.ok THEN DecodeErr
                                     ELSE Decoded(new_ack(session_id.value, pos.value))
                           [] message_kind = b_data ->
                                  LET pos == delimited_u32(session_id.rest)
                                      data == escaped_transform(pos.rest, 0, <<>>)
                                  IN IF ~pos.ok THEN DecodeErr
                                     ELSE IF ~data.ok THEN DecodeErr
                                     ELSE Decoded(new_data(session_id.value, data.value,
                                                           pos.value))
                           [] OTHER -> DecodeErr

----------------------------------------------------------------------------
(* LrcpSession *)

\* LrcpSession::new, with the state of its channel: message_rx is the queue of
\* the bounded channel, rx_closed is set by Receiver::close, tx_open holds while
\* a Sender of the channel is alive. running is false once the task has ended,
\* panicked is true if a panic ended it.
\* covered and accepted are history: the prefix of the peer's stream the chunks
\* fed so far cover, and everything push_str has appended to data.
LrcpSession_new(id, address) ==
    [id |-> id, address |-> address,
     message_rx |-> <<>>, rx_closed |-> FALSE, tx_open |-> TRUE, running |-> TRUE,
     panicked |-> FALSE,
     connected |-> FALSE, data |-> <<>>,
     bytes_received |-> 0, bytes_sent |-> 0, bytes_acked |-> 0,
     covered |-> 0, accepted |-> <<>>]

NoSession == LrcpSession_new(0, "none")

\* What one call of a method of the session does: the session after it, the
\* datagrams it sent, the batches it handed to send_messages, the string it
\* pushed onto data, and whether it returned Ok.
Outcome(s, sent, spawned, pushed, ok) ==
    [session |-> s, sent |-> sent, spawned |-> spawned, pushed |-> pushed, ok |-> ok]

\* Mutant of the operator below: every Ack carries 0
ack_zero(s, position) == Datagram(s.address, new_ack(s.id, 0))

\* What ack() hands to the socket
ack(s, position) == Datagram(s.address, new_ack(s.id, position))

close(s) ==
    Outcome([s EXCEPT !.rx_closed = TRUE],
            <<Datagram(s.address, new_close(s.id))>>, <<>>, <<>>, FALSE)

\* The messages send_line builds for one reversed line
send_line(s, line) ==
    LET cs == chunk_lines(line)
    IN [i \in 1..Len(cs) |-> new_data(s.id, as_bytes(cs[i]), s.bytes_sent)]

handle_connect(s) ==
    Outcome([s EXCEPT !.connected = TRUE], <<ack(s, 0)>>, <<>>, <<>>, TRUE)

\* Mutant of the test below: the test off by one
ack_beyond_sent_off_by_one(s, position) == position > s.bytes_sent + 1

\* Mutant of the test below: no Ack counts as beyond everything sent
ack_beyond_sent_never(s, position) == FALSE

\* The test of line 114: an Ack beyond everything sent
ack_beyond_sent(s, position) == position > s.bytes_sent

\* Mutant of the handler below: the connected test of line 110 is left out
handle_ack_unconnected(s, position) ==
    IF ack_beyond_sent(s, position) THEN close(s)
    ELSE Outcome([s EXCEPT !.bytes_acked = position], <<>>, <<>>, <<>>, TRUE)

handle_ack(s, position) ==
    IF ~s.connected THEN close(s)
    ELSE IF ack_beyond_sent(s, position) THEN close(s)
    ELSE Outcome([s EXCEPT !.bytes_acked = position], <<>>, <<>>, <<>>, TRUE)

\* The flush of handle_message: the lines of data that end with a newline are
\* reversed and sent, and data keeps what follows the last newline.
flush(s) ==
    LET pieces == split_inclusive(s.data)
        lines == SelectSeq(pieces, ends_with_newline)
        last_str == pieces[Len(pieces)]
    IN Outcome([s EXCEPT !.data = IF pieces = <<>> THEN s.data
                                   ELSE IF ends_with_newline(last_str) THEN <<>>
                                   ELSE last_str],
               <<>>,
               [i \in 1..Len(lines) |-> send_line(s, reverse_line(lines[i]))],
               <<>>, TRUE)

\* Mutant of the reply below: the chunk's own position is acknowledged
gap_ack_position(s, position) == ack(s, position)

\* The reply to a chunk that starts beyond bytes_received (line 134)
gap_ack(s, position) == ack(s, s.bytes_received)

\* Mutant of the offset below: nothing of the chunk counts as held
data_position_zero(s, position) == 0

\* How many bytes of a chunk at position are already held (line 138)
data_position(s, position) == s.bytes_received - position

\* Mutant of the slice below: one byte too many is skipped
unseen_suffix_off_by_one(data, skip) == Drop(data, Min(skip + 1, Len(data)))

\* The part of the chunk that is new: &data[data_position..] (line 147)
unseen_suffix(data, skip) == Drop(data, skip)

handle_data(s, data, position) ==
    IF ~s.connected THEN close(s)
    ELSE IF position > s.bytes_received
         THEN Outcome(s, <<gap_ack(s, position)>>, <<>>, <<>>, TRUE)
    ELSE LET skip == data_position(s, position)
         IN IF skip > Len(data) THEN Outcome(s, <<>>, <<>>, <<>>, TRUE)
            ELSE LET new_bytes == unseen_suffix(data, skip)
                     pushed == from_utf8_lossy(new_bytes)
                     s1 == [s EXCEPT !.data = s.data \o pushed,
                                     !.bytes_received = s.bytes_received + Len(new_bytes)]
                     acked == <<ack(s1, s1.bytes_received)>>
                 IN IF Contains(new_bytes, NL)
                    THEN LET f == flush(s1)
                         IN Outcome(f.session, acked, f.spawned, pushed, TRUE)
                    ELSE Outcome(s1, acked, <<>>, pushed, TRUE)

handle_message(s, msg) ==
    CASE msg.kind = "Connect" -> handle_connect(s)
      [] msg.kind = "Close" -> close(s)
      [] msg.kind = "Ack" -> handle_ack(s, msg.position)
      [] msg.kind = "Data" -> handle_data(s, msg.data, msg.position)

----------------------------------------------------------------------------
(* send_messages: the retransmission task of one flushed line *)

\* tokio::spawn(send_messages(socket, address, messages, bytes_acked)): the task
\* shares bytes_acked with the session task that spawned it. transmitted[i]
\* records whether messages[i] has been handed to the socket.
Supervisor(t, address, messages) ==
    [task |-> t, address |-> address, messages |-> messages, running |-> TRUE,
     transmitted |-> [i \in 1..Len(messages) |-> FALSE]]

\* Mutant of the test below: every message goes out at every tick
needs_send_always(position, most_recent_ack) == TRUE

\* The test of the tick's loop: does the message go out again?
needs_send(position, most_recent_ack) == position > most_recent_ack

\* The indices of the messages one tick sends, in order
tick_sends(messages, most_recent_ack) ==
    SelectSeq([i \in 1..Len(messages) |-> i],
              LAMBDA i : needs_send(messages[i].position, most_recent_ack))

----------------------------------------------------------------------------
(* The last step *)

\* op: the operation; task, sup: the session and retransmission task it ran in;
\* msg: the message it handled; pre: the session before it; spawned: how many
\* retransmission tasks it started
Step(op, t, k, msg, pre, spawned) ==
    [op |-> op, task |-> t, sup |-> k, msg |-> msg, pre |-> pre, spawned |-> spawned]

----------------------------------------------------------------------------
(* The dispatcher's loop, the codec's position and the line's *)

\* run of line_reversal.rs is waiting in select! ("recv"), is suspended in
\* session.tx.send(packet).await of handle_receive_client_packet ("send", with
\* the packet), or has been ended by a panic ("panicked")
Receiving == [pc |-> "recv", packet |-> NoMessage]

\* A datagram by its parts: the first slash (or nothing), the fields that
\* slashes separate, the last slash (or nothing)
Fields(lead, segments, trail) == [lead |-> lead, segments |-> segments, trail |-> trail]

NoFields == Fields(<<>>, <<>>, <<>>)

\* One packet at one codec: the message or the datagram it starts from, the
\* bytes, what decoding the bytes gives, what encoding that gives
Codec(pc, impl, message, fields, bytes, decoded, encoded) ==
    [pc |-> pc, impl |-> impl, message |-> message, fields |-> fields,
     bytes |-> bytes, decoded |-> decoded, encoded |-> encoded]

NoCodec == Codec("none", "none", NoMessage, NoFields, <<>>, DecodeErr, <<>>)

\* One line at send_line: the line of the buffer, what reverse_line makes of it,
\* the strings chunk_lines makes of that
Reversal(pc, line, reversed, chunked) ==
    [pc |-> pc, line |-> line, reversed |-> reversed, chunks |-> chunked]

NoReversal == Reversal("none", <<>>, <<>>, <<>>)

\* Cipher of insecure_sockets/protocol.rs: the operations and the two positions
Cipher(operations, incoming_position, outgoing_position) ==
    [cipher |-> operations,
     incoming_position |-> incoming_position,
     outgoing_position |-> outgoing_position]

\* Two Ciphers of one cipher spec, as in the test complex_cipher: the client's
\* encodes the bytes of plain onto the wire, the server's decodes them
Ciphers(client_cipher, server_cipher, plain, wire, decoded) ==
    [client_cipher |-> client_cipher, server_cipher |-> server_cipher,
     plain |-> plain, wire |-> wire, decoded |-> decoded]

NoCiphers == Ciphers(Cipher(<<>>, 0, 0), Cipher(<<>>, 0, 0), <<>>, <<>>, <<>>)

\* One line of toy jobs at handle_message: the message, which of the two
\* handle_message functions ("session" of session.rs, "server" of server.rs)
\* is applied, and what it returns
Request(pc, impl, message, ok, response) ==
    [pc |-> pc, impl |-> impl, message |-> message, ok |-> ok, response |-> response]

NoRequest == Request("none", "none", <<>>, FALSE, <<>>)

----------------------------------------------------------------------------
(* Actions of the session and retransmission tasks *)

\* The prefix of the peer's stream covered once a chunk has been fed to a
\* connected session: a chunk that starts inside or at the end of the prefix
\* extends it to the chunk's end, a chunk that starts beyond it is a gap.
Covered(s, msg) ==
    IF msg.kind = "Data" /\ s.connected /\ msg.position <= s.covered
    THEN Max(s.covered, msg.position + Len(msg.data))
    ELSE s.covered

\* LrcpSession::run, recv() returns Some(message): handle it
SessionRecv(t) ==
    /\ tasks[t].running
    /\ tasks[t].message_rx # <<>>
    /\ LET msg == Head(tasks[t].message_rx)
           s == [tasks[t] EXCEPT !.message_rx = Tail(tasks[t].message_rx)]
           o == handle_message(s, msg)
           after == [o.session EXCEPT !.covered = Covered(s, msg),
                                      !.accepted = s.accepted \o o.pushed]
       IN /\ tasks' = [tasks EXCEPT ![t] = after]
          /\ supervisors' = supervisors \o
                 [i \in 1..Len(o.spawned) |-> Supervisor(t, s.address, o.spawned[i])]
          /\ out' = o.sent
          /\ step' = Step("handle", t, 0, msg, tasks[t], Len(o.spawned))
    /\ UNCHANGED <<stream, dispatcher, codec, sessions, reversal, rx, ciphers, request>>

\* LrcpSession::run, recv() returns None (the channel is closed and empty): the
\* only branch of select! is disabled and there is no else branch, so select!
\* panics and the task ends.
SessionRecvNone(t) ==
    /\ tasks[t].running
    /\ tasks[t].message_rx = <<>>
    /\ tasks[t].rx_closed \/ ~tasks[t].tx_open
    /\ tasks' = [tasks EXCEPT ![t].running = FALSE, ![t].panicked = TRUE]
    /\ out' = <<>>
    /\ step' = Step("recv_none", t, 0, NoMessage, tasks[t], 0)
    /\ UNCHANGED <<stream, dispatcher, codec, sessions, supervisors, reversal, rx, ciphers, request>>

\* send_messages, one tick of the interval (the first tick fires at once)
SupervisorTick(k) ==
    /\ supervisors[k].running
    /\ LET sup == supervisors[k]
           most_recent_ack == tasks[sup.task].bytes_acked
           sends == tick_sends(sup.messages, most_recent_ack)
           all_messages_acked == sends = <<>>
       IN /\ out' = [i \in 1..Len(sends) |-> Datagram(sup.address, sup.messages[sends[i]])]
          /\ supervisors' = [supervisors EXCEPT
                 ![k].running = ~all_messages_acked,
                 ![k].transmitted = [i \in 1..Len(sup.messages) |->
                        sup.transmitted[i] \/ \E j \in 1..Len(sends) : sends[j] = i]]
          /\ step' = Step("tick", sup.task, k, NoMessage, tasks[sup.task], 0)
    /\ UNCHANGED <<stream, dispatcher, codec, sessions, tasks, reversal, rx, ciphers, request>>

----------------------------------------------------------------------------
(* A session fed by any holder of the Sender of its channel *)

\* Mutant of the action below: the message goes to the front of the queue
PeerSend_front(t, msg) ==
    /\ tasks[t].running /\ tasks[t].tx_open /\ ~tasks[t].rx_closed
    /\ Len(tasks[t].message_rx) < MaxQueue
    /\ tasks' = [tasks EXCEPT ![t].message_rx = <<msg>> \o @]
    /\ out' = <<>>
    /\ step' = Step("send", t, 0, msg, NoSession, 0)
    /\ UNCHANGED <<stream, dispatcher, codec, sessions, supervisors, reversal, rx, ciphers, request>>

\* tx.send(message): the message joins the queue of an open channel
PeerSend(t, msg) ==
    /\ tasks[t].running /\ tasks[t].tx_open /\ ~tasks[t].rx_closed
    /\ Len(tasks[t].message_rx) < MaxQueue
    /\ tasks' = [tasks EXCEPT ![t].message_rx = Append(@, msg)]
    /\ out' = <<>>
    /\ step' = Step("send", t, 0, msg, NoSession, 0)
    /\ UNCHANGED <<stream, dispatcher, codec, sessions, supervisors, reversal, rx, ciphers, request>>

Streams == [1..MaxStream -> Bytes]

\* One session, as the dispatcher leaves it after the Connect of session 1 from
\* address A (handle_receive_client_packet, Payload::Connect)
Init ==
    /\ stream \in Streams
    /\ sessions = [id \in {1} |-> [address |-> "A", task |-> 1]]
    /\ tasks = <<LrcpSession_new(1, "A")>>
    /\ supervisors = <<>>
    /\ out = <<>>
    /\ step = Step("init", 0, 0, NoMessage, NoSession, 0)
    /\ dispatcher = Receiving
    /\ codec = NoCodec
    /\ reversal = NoReversal
    /\ rx = <<>>
    /\ ciphers = NoCiphers
    /\ request = NoRequest

Next ==
    \/ \E t \in 1..Len(tasks) : \E msg \in PeerMessages(tasks[t].id) : PeerSend(t, msg)
    \/ \E t \in 1..Len(tasks) : SessionRecv(t)
    \/ \E t \in 1..Len(tasks) : SessionRecvNone(t)
    \/ \E k \in 1..Len(supervisors) : SupervisorTick(k)

Spec == Init /\ [][Next]_vars

----------------------------------------------------------------------------
(* The dispatcher: run and handle_receive_client_packet of line_reversal.rs *)

\* Mutant of the test below: no id is found
InTable_never(id) == FALSE

\* sessions.get(&packet.session_id) is Some
InTable(id) == id \in DOMAIN sessions

Insert(table, id, entry) ==
    [k \in DOMAIN table \cup {id} |-> IF k = id THEN entry ELSE table[k]]

Remove(table, id) == [k \in DOMAIN table \ {id} |-> table[k]]

\* session.tx.send(packet).await on a channel with room: the packet joins the
\* queue unless the receiver has closed the channel or is gone (Err, logged)
tx_send(s, packet) ==
    IF s.running /\ ~s.rx_closed THEN [s EXCEPT !.message_rx = Append(@, packet)] ELSE s

\* Mutant of the operator below: the result of the send is unwrapped
after_send_unwrap(d, s) ==
    IF s.running /\ ~s.rx_closed THEN d ELSE [d EXCEPT !.pc = "panicked"]

\* The dispatcher after session.tx.send(packet).await to session s has ended:
\* if let Err(e) = ... { error!(..) } logs an error and the loop goes on
after_send(d, s) == d

\* Payload::Connect for an id that is not in the table: a channel is made, the
\* entry is inserted and a session task is spawned on the receiving end. The
\* Connect packet itself is put on no queue.
ReceiveConnect(id, addr) ==
    /\ ~InTable(id)
    /\ Len(tasks) < MaxTasks
    /\ sessions' = Insert(sessions, id, [address |-> addr, task |-> Len(tasks) + 1])
    /\ tasks' = Append(tasks, LrcpSession_new(id, addr))
    /\ out' = <<>>
    /\ step' = Step("connect", Len(tasks) + 1, 0, new_connect(id), NoSession, 0)
    /\ UNCHANGED <<stream, dispatcher, codec, supervisors, reversal, rx, ciphers, request>>

\* Mutant of the action below: the entry and the session take the address of the
\* new Connect
ReceiveConnectKnown_readdress(id, addr) ==
    /\ InTable(id)
    /\ sessions' = [sessions EXCEPT ![id].address = addr]
    /\ tasks' = [tasks EXCEPT ![sessions[id].task].address = addr]
    /\ out' = <<>>
    /\ step' = Step("connect_known", sessions[id].task, 0, new_connect(id), NoSession, 0)
    /\ UNCHANGED <<stream, dispatcher, codec, supervisors, reversal, rx, ciphers, request>>

\* Payload::Connect for an id that is in the table: return
ReceiveConnectKnown(id, addr) ==
    /\ InTable(id)
    /\ out' = <<>>
    /\ step' = Step("connect_known", sessions[id].task, 0, new_connect(id), NoSession, 0)
    /\ UNCHANGED <<stream, dispatcher, codec, sessions, tasks, supervisors, reversal, rx, ciphers, request>>

\* Payload::Close for an id that is in the table: the packet is sent to the
\* session and the entry is removed, which drops the Sender of its channel
ReceiveClose(id, addr) ==
    /\ InTable(id)
    /\ LET t == sessions[id].task
       IN /\ Len(tasks[t].message_rx) < MaxChannel
          /\ tasks' = [tasks EXCEPT ![t] = [tx_send(@, new_close(id)) EXCEPT !.tx_open = FALSE]]
          /\ dispatcher' = after_send(dispatcher, tasks[t])
          /\ step' = Step("close", t, 0, new_close(id), NoSession, 0)
    /\ sessions' = Remove(sessions, id)
    /\ out' = <<>>
    /\ UNCHANGED <<stream, codec, supervisors, reversal, rx, ciphers, request>>

\* Payload::Ack or Payload::Data for an id that is in the table: the packet is
\* sent to the session
ReceiveOther(packet, addr) ==
    /\ packet.kind \in {"Ack", "Data"}
    /\ InTable(packet.session)
    /\ LET t == sessions[packet.session].task
       IN /\ Len(tasks[t].message_rx) < MaxChannel
          /\ tasks' = [tasks EXCEPT ![t] = tx_send(@, packet)]
          /\ dispatcher' = after_send(dispatcher, tasks[t])
          /\ step' = Step("forward", t, 0, packet, NoSession, 0)
    /\ out' = <<>>
    /\ UNCHANGED <<stream, codec, sessions, supervisors, reversal, rx, ciphers, request>>

\* Mutant of the action below: a session is made for the id
ReceiveUnknown_creates(packet, addr) ==
    /\ packet.kind \in {"Close", "Ack", "Data"}
    /\ ReceiveConnect(packet.session, addr)

\* Payload::Close, Ack or Data for an id that is not in the table: logged
ReceiveUnknown(packet, addr) ==
    /\ packet.kind \in {"Close", "Ack", "Data"}
    /\ ~InTable(packet.session)
    /\ out' = <<>>
    /\ step' = Step("unknown", 0, 0, packet, NoSession, 0)
    /\ UNCHANGED <<stream, dispatcher, codec, sessions, tasks, supervisors, reversal, rx, ciphers, request>>

InitDispatch ==
    /\ stream \in [1..1 -> Bytes]
    /\ sessions = <<>>
    /\ tasks = <<>>
    /\ supervisors = <<>>
    /\ out = <<>>
    /\ step = Step("init", 0, 0, NoMessage, NoSession, 0)
    /\ dispatcher = Receiving
    /\ codec = NoCodec
    /\ reversal = NoReversal
    /\ rx = <<>>
    /\ ciphers = NoCiphers
    /\ request = NoRequest

NextDispatch ==
    \/ \E id \in SessionIds, addr \in Addrs : ReceiveConnect(id, addr)
    \/ \E id \in SessionIds, addr \in Addrs : ReceiveConnectKnown(id, addr)
    \/ \E id \in SessionIds, addr \in Addrs : ReceiveClose(id, addr)
    \/ \E id \in SessionIds, addr \in Addrs : \E packet \in PeerMessages(id) :
           ReceiveOther(packet, addr)
    \/ \E id \in SessionIds, addr \in Addrs : \E packet \in PeerMessages(id) :
           ReceiveUnknown(packet, addr)
    \/ \E t \in 1..Len(tasks) : SessionRecv(t)
    \/ \E t \in 1..Len(tasks) : SessionRecvNone(t)

SpecDispatch == InitDispatch /\ [][NextDispatch]_vars

----------------------------------------------------------------------------
(* The dispatcher reading datagrams: read_packet, then                     *)
(* handle_receive_client_packet with its sends that wait for room          *)

RECURSIVE join(_)
join(segments) ==
    IF segments = <<>> THEN <<>>
    ELSE IF Len(segments) = 1 THEN segments[1]
    ELSE segments[1] \o <<SLASH>> \o join(Tail(segments))

\* &buf[..num_bytes] of a datagram with these parts
Assemble(fields) == fields.lead \o join(fields.segments) \o fields.trail

Framed(segments) == Fields(<<SLASH>>, segments, <<SLASH>>)

b_bogus == <<98, 111, 103, 117, 115>>

\* /connect/ID/, /close/1/, /ack/1/0/, /data/ID/0/a/
WellFormedDatagrams ==
    { Assemble(Framed(<<b_connect, to_string(id)>>)) : id \in SessionIds }
        \cup { Assemble(Framed(<<b_close, to_string(1)>>)) }
        \cup { Assemble(Framed(<<b_ack, to_string(1), to_string(0)>>)) }
        \cup { Assemble(Framed(<<b_data, to_string(id), to_string(0), <<97>>>>)) : id \in SessionIds }

\* connect/1/ and /connect/1 (no leading, no trailing slash), /bogus/1/ (unknown
\* type), /connect/x/ (malformed integer), /ack/1/ (the delimiter and the
\* position are missing)
MalformedDatagrams ==
    { Assemble(Fields(<<>>, <<b_connect, to_string(1)>>, <<SLASH>>)),
      Assemble(Fields(<<SLASH>>, <<b_connect, to_string(1)>>, <<>>)),
      Assemble(Framed(<<b_bogus, to_string(1)>>)),
      Assemble(Framed(<<b_connect, <<120>>>>)),
      Assemble(Framed(<<b_ack, to_string(1)>>)) }

Datagrams == WellFormedDatagrams \cup MalformedDatagrams

\* What address B sends: the Connect of session 1 and /ack/1/1/, an Ack for
\* session 1 that address A does not send
DatagramsOfB ==
    { Assemble(Framed(<<b_connect, to_string(1)>>)),
      Assemble(Framed(<<b_ack, to_string(1), to_string(1)>>)) }

\* read_packet, Packet::try_from returns Err: the error is logged and the loop
\* of read_packet receives the next datagram
ReadMalformed ==
    /\ out' = <<>>
    /\ step' = Step("discard", 0, 0, NoMessage, NoSession, 0)
    /\ UNCHANGED <<stream, dispatcher, codec, sessions, tasks, supervisors, reversal, rx, ciphers, request>>

\* read_packet, Packet::try_from panics: the panic unwinds through read_packet
\* and run, and the task of the dispatcher ends
ReadPanics ==
    /\ dispatcher' = [pc |-> "panicked", packet |-> NoMessage]
    /\ out' = <<>>
    /\ step' = Step("panic", 0, 0, NoMessage, NoSession, 0)
    /\ UNCHANGED <<stream, codec, sessions, tasks, supervisors, reversal, rx, ciphers, request>>

\* Payload::Close, Ack or Data for an id that is in the table, and the channel
\* of its session holds CHANNEL_SIZE packets: session.tx.send(packet).await
\* waits for room, and with it handle_receive_client_packet and the loop of run
ReceiveFull(packet, addr) ==
    /\ packet.kind \in {"Close", "Ack", "Data"}
    /\ InTable(packet.session)
    /\ LET t == sessions[packet.session].task
       IN /\ Len(tasks[t].message_rx) >= MaxChannel
          /\ step' = Step("full", t, 0, packet, NoSession, 0)
    /\ dispatcher' = [pc |-> "send", packet |-> packet]
    /\ out' = <<>>
    /\ UNCHANGED <<stream, codec, sessions, tasks, supervisors, reversal, rx, ciphers, request>>

\* The send that waited ends: the session has taken a packet from its queue
\* (the packet joins the queue), or has closed its receiver or ended (Err,
\* logged). After the send of a Close the entry is removed.
SendCompletes ==
    /\ dispatcher.pc = "send"
    /\ LET packet == dispatcher.packet
           t == sessions[packet.session].task
       IN /\ \/ Len(tasks[t].message_rx) < MaxChannel
             \/ tasks[t].rx_closed
             \/ ~tasks[t].running
          /\ tasks' = [tasks EXCEPT ![t] =
                 IF packet.kind = "Close" THEN [tx_send(@, packet) EXCEPT !.tx_open = FALSE]
                 ELSE tx_send(@, packet)]
          /\ sessions' = IF packet.kind = "Close" THEN Remove(sessions, packet.session)
                         ELSE sessions
          /\ dispatcher' = after_send(Receiving, tasks[t])
          /\ step' = Step("resume", t, 0, packet, NoSession, 0)
    /\ out' = <<>>
    /\ UNCHANGED <<stream, codec, supervisors, reversal, rx, ciphers, request>>

\* handle_receive_client_packet: the match on packet.payload
handle_receive_client_packet(packet, addr) ==
    \/ packet.kind = "Connect" /\ ReceiveConnect(packet.session, addr)
    \/ packet.kind = "Connect" /\ ReceiveConnectKnown(packet.session, addr)
    \/ packet.kind = "Close" /\ ReceiveClose(packet.session, addr)
    \/ ReceiveOther(packet, addr)
    \/ ReceiveUnknown(packet, addr)
    \/ ReceiveFull(packet, addr)

\* Packet::try_from(&buf[..num_bytes]) in read_packet, for each datagram
read_packet == [bytes \in Datagrams \cup DatagramsOfB |-> Packet_try_from(bytes)]

\* The first branch of select! in run: read_packet takes a datagram from the
\* socket and decodes it, and run hands the packet to
\* handle_receive_client_packet
ReadDatagram(bytes, addr) ==
    /\ dispatcher.pc = "recv"
    /\ LET r == read_packet[bytes]
       IN \/ r.result = "panic" /\ ReadPanics
          \/ r.result = "err" /\ ReadMalformed
          \/ r.result = "ok" /\ handle_receive_client_packet(r.packet, addr)

\* What arrives at the socket: each datagram from address A, and the Connect of
\* session 1 from address B as well
Arrivals ==
    (Datagrams \X {"A"}) \cup ({Assemble(Framed(<<b_connect, to_string(1)>>))} \X {"B"})

InitWire ==
    /\ stream = <<>>
    /\ sessions = <<>>
    /\ tasks = <<>>
    /\ supervisors = <<>>
    /\ out = <<>>
    /\ step = Step("init", 0, 0, NoMessage, NoSession, 0)
    /\ dispatcher = Receiving
    /\ codec = NoCodec
    /\ reversal = NoReversal
    /\ rx = <<>>
    /\ ciphers = NoCiphers
    /\ request = NoRequest

NextWire ==
    \/ \E a \in Arrivals : ReadDatagram(a[1], a[2])
    \/ SendCompletes
    \/ \E t \in 1..Len(tasks) : SessionRecv(t)
    \/ \E t \in 1..Len(tasks) : SessionRecvNone(t)

SpecWire == InitWire /\ [][NextWire]_vars

----------------------------------------------------------------------------
(* The dispatcher with one session id and two peer addresses *)

\* What arrives at the socket: from address A the datagrams that are malformed
\* or name session 1, and from address B those of DatagramsOfB
ArrivalsOfSession ==
    ({ d \in Datagrams : read_packet[d].result = "ok" => read_packet[d].packet.session = 1 }
         \X {"A"})
        \cup (DatagramsOfB \X {"B"})

NextAddress ==
    \/ \E a \in ArrivalsOfSession : ReadDatagram(a[1], a[2])
    \/ SendCompletes
    \/ \E t \in 1..Len(tasks) : SessionRecv(t)
    \/ \E t \in 1..Len(tasks) : SessionRecvNone(t)

SpecAddress == InitWire /\ [][NextAddress]_vars

----------------------------------------------------------------------------
(* A session while time passes *)

\* LrcpSession::run while CONNECTION_TIMEOUT passes with nothing in the queue:
\* the select! of run has one branch, message_rx.recv(), and no timer, so the
\* task goes on waiting
ConnectionTimeoutPasses(t) ==
    /\ tasks[t].running /\ tasks[t].tx_open /\ ~tasks[t].rx_closed
    /\ tasks[t].message_rx = <<>>
    /\ out' = <<>>
    /\ step' = Step("timeout", t, 0, NoMessage, tasks[t], 0)
    /\ UNCHANGED <<stream, dispatcher, codec, sessions, tasks, supervisors, reversal, rx, ciphers, request>>

NextTimed ==
    \/ Next
    \/ \E t \in 1..Len(tasks) : ConnectionTimeoutPasses(t)

SpecTimed == Init /\ [][NextTimed]_vars

----------------------------------------------------------------------------
(* A session whose socket.send_to can fail *)

\* close() when socket.send_to returns Err: .expect("Failed to send packet")
\* panics before message_rx.close() is reached, and the panic ends the task
close_send_fails(s) ==
    Outcome([s EXCEPT !.running = FALSE, !.panicked = TRUE], <<>>, <<>>, <<>>, FALSE)

\* handle_message when the socket.send_to of the handler returns Err. ack()
\* returns the Err, and the ? of its caller leaves handle_message at once: after
\* a Data chunk has been appended and counted, before the flush.
handle_message_send_fails(s, msg) ==
    CASE msg.kind = "Connect" ->
             Outcome([s EXCEPT !.connected = TRUE], <<>>, <<>>, <<>>, FALSE)
      [] msg.kind = "Close" -> close_send_fails(s)
      [] msg.kind = "Ack" -> close_send_fails(s)
      [] msg.kind = "Data" ->
             IF ~s.connected THEN close_send_fails(s)
             ELSE IF msg.position > s.bytes_received THEN Outcome(s, <<>>, <<>>, <<>>, FALSE)
             ELSE LET new_bytes == unseen_suffix(msg.data, data_position(s, msg.position))
                      pushed == from_utf8_lossy(new_bytes)
                  IN Outcome([s EXCEPT !.data = s.data \o pushed,
                                       !.bytes_received = s.bytes_received + Len(new_bytes)],
                             <<>>, <<>>, pushed, FALSE)

\* LrcpSession::run, recv() returns Some(message) and the send of its handler
\* fails (only a handling that sends can take this step)
SessionRecvSendFails(t) ==
    /\ tasks[t].running
    /\ tasks[t].message_rx # <<>>
    /\ LET msg == Head(tasks[t].message_rx)
           s == [tasks[t] EXCEPT !.message_rx = Tail(tasks[t].message_rx)]
           o == handle_message_send_fails(s, msg)
       IN /\ handle_message(s, msg).sent # <<>>
          /\ tasks' = [tasks EXCEPT ![t] = [o.session EXCEPT !.covered = Covered(s, msg),
                                                             !.accepted = s.accepted \o o.pushed]]
          /\ out' = <<>>
          /\ step' = Step("send_fails", t, 0, msg, tasks[t], 0)
    /\ UNCHANGED <<stream, dispatcher, codec, sessions, supervisors, reversal, rx, ciphers, request>>

NextSendFails ==
    \/ Next
    \/ \E t \in 1..Len(tasks) : SessionRecvSendFails(t)

SpecSendFails == Init /\ [][NextSendFails]_vars

----------------------------------------------------------------------------
(* reverse_line and chunk_lines as functions: each line reversed, then split *)

\* The chars of a line apart from its run of 'a': 'a', ' ', and U+FFFD, which
\* takes three bytes
AffixChars == {97, 32, REPL}

Affixes == UNION { [1..n -> AffixChars] : n \in 0..MaxAffix }

\* How many times 'a' stands between the affixes: not at all, once, or about
\* CHUNK_SIZE times
Runs == {0, 1} \cup ((CHUNK_SIZE - MaxSlack)..(CHUNK_SIZE + MaxSlack))

\* The lines the flush hands to reverse_line: pieces of split_inclusive that end
\* with the newline and hold no other
Lines ==
    { head \o [i \in 1..n |-> 97] \o tail \o <<NL>> :
          head \in Affixes, n \in Runs, tail \in Affixes }

InitChunk ==
    /\ stream = <<>>
    /\ sessions = <<>>
    /\ tasks = <<>>
    /\ supervisors = <<>>
    /\ out = <<>>
    /\ step = Step("init", 0, 0, NoMessage, NoSession, 0)
    /\ dispatcher = Receiving
    /\ codec = NoCodec
    /\ reversal \in { Reversal("line", line, <<>>, <<>>) : line \in Lines }
    /\ rx = <<>>
    /\ ciphers = NoCiphers
    /\ request = NoRequest

\* reverse_line(line), line 158
ReverseLine ==
    /\ reversal.pc = "line"
    /\ reversal' = [reversal EXCEPT !.pc = "reversed", !.reversed = reverse_line(reversal.line)]
    /\ UNCHANGED <<stream, sessions, tasks, supervisors, out, step, dispatcher, codec, rx, ciphers, request>>

\* chunk_lines(line) in send_line, line 180
ChunkLines ==
    /\ reversal.pc = "reversed"
    /\ reversal' = [reversal EXCEPT !.pc = "chunked", !.chunks = chunk_lines(reversal.reversed)]
    /\ UNCHANGED <<stream, sessions, tasks, supervisors, out, step, dispatcher, codec, rx, ciphers, request>>

NextChunk == ReverseLine \/ ChunkLines

SpecChunk == InitChunk /\ [][NextChunk]_vars

----------------------------------------------------------------------------
(* The two codecs as functions: each message encoded and decoded again, each *)
(* datagram decoded and encoded again                                       *)

Impls == {"Packet", "Message"}

encode(impl, message) ==
    IF impl = "Packet" THEN Packet_to_bytes(message) ELSE Message_to_packet(message)

decode(impl, bytes) ==
    IF impl = "Packet" THEN Packet_try_from(bytes) ELSE Message_parse(bytes)

\* 'a', '\n', '/' and '\'
CodecBytes == {97, NL, SLASH, BACKSLASH}

CodecData == UNION { [1..n -> CodecBytes] : n \in 0..MaxData }

\* Session ids and positions: an i32 in a Packet, a u32 in a Message
CodecInts(impl) == IF impl = "Packet" THEN {-1, 0, 12, 2147483647} ELSE {0, 12, 2147483647}

CodecMessages(impl) ==
    { new_connect(s) : s \in CodecInts(impl) }
        \cup { new_close(s) : s \in CodecInts(impl) }
        \cup { new_ack(s, p) : s \in CodecInts(impl), p \in CodecInts(impl) }
        \cup { new_data(s, d, p) : s \in CodecInts(impl), d \in CodecData, p \in CodecInts(impl) }

\* What stands in a datagram where an integer belongs: 0, 12, 01, -1, +1,
\* nothing, x, 1x, and 4294967296, which is u32::MAX + 1
IntFields ==
    { to_string(0), to_string(12), <<ZERO, ZERO + 1>>, <<MINUS, ZERO + 1>>, <<PLUS, ZERO + 1>>,
      <<>>, <<120>>, <<ZERO + 1, 120>>, to_string(429496729) \o <<ZERO + 6>> }

DataFields == { escape(d) : d \in CodecData }

Kinds == {b_connect, b_data, b_ack, b_close, b_bogus}

DatagramFields ==
    { Fields(lead, <<kind, s>>, trail) :
          lead \in {<<>>, <<SLASH>>}, kind \in Kinds, s \in IntFields, trail \in {<<>>, <<SLASH>>} }
        \cup { Framed(<<kind, s, p>>) : kind \in {b_ack, b_data}, s \in IntFields, p \in IntFields }
        \cup { Framed(<<b_data, s, p, d>>) : s \in IntFields, p \in IntFields, d \in DataFields }

InitCodec ==
    /\ stream = <<>>
    /\ sessions = <<>>
    /\ tasks = <<>>
    /\ supervisors = <<>>
    /\ out = <<>>
    /\ step = Step("init", 0, 0, NoMessage, NoSession, 0)
    /\ dispatcher = Receiving
    /\ codec \in UNION { { Codec("message", impl, m, NoFields, <<>>, DecodeErr, <<>>) :
                               m \in CodecMessages(impl) }
                             \cup { Codec("datagram", impl, NoMessage, f, Assemble(f), DecodeErr, <<>>) :
                                        f \in DatagramFields } : impl \in Impls }
    /\ reversal = NoReversal
    /\ rx = <<>>
    /\ ciphers = NoCiphers
    /\ request = NoRequest

\* to_bytes or to_packet of a message
Encode ==
    /\ codec.pc = "message"
    /\ codec' = [codec EXCEPT !.pc = "encoded", !.bytes = encode(codec.impl, codec.message)]
    /\ UNCHANGED <<stream, sessions, tasks, supervisors, out, step, dispatcher, reversal, rx, ciphers, request>>

\* try_from or parse of the bytes of a message, or of a datagram
Decode ==
    /\ codec.pc \in {"encoded", "datagram"}
    /\ codec' = [codec EXCEPT !.pc = IF codec.pc = "encoded" THEN "roundtrip" ELSE "decoded",
                              !.decoded = decode(codec.impl, codec.bytes)]
    /\ UNCHANGED <<stream, sessions, tasks, supervisors, out, step, dispatcher, reversal, rx, ciphers, request>>

\* to_bytes or to_packet of what a datagram has decoded to
Reencode ==
    /\ codec.pc = "decoded"
    /\ codec.decoded.result = "ok"
    /\ codec' = [codec EXCEPT !.pc = "reencoded",
                              !.encoded = encode(codec.impl, codec.decoded.packet)]
    /\ UNCHANGED <<stream, sessions, tasks, supervisors, out, step, dispatcher, reversal, rx, ciphers, request>>

NextCodec == Encode \/ Decode \/ Reencode

SpecCodec == InitCodec /\ [][NextCodec]_vars

----------------------------------------------------------------------------
(* The dispatcher's internal channel: the second branch of select! in run, *)
(* and handle_receive_internal_packet                                      *)

\* The packets a session task sends on main_tx: a Close, an Ack and a Data of
\* its own session
InternalPackets(id) == {new_close(id), new_ack(id, 0), new_data(id, <<97>>, 0)}

\* main_tx.send(packet) by a spawned session task, which holds a clone of
\* main_tx: the channel is unbounded, the send does not wait
MainTxSend(t, packet) ==
    /\ tasks[t].running
    /\ Len(rx) < MaxInternal
    /\ rx' = Append(rx, packet)
    /\ out' = <<>>
    /\ step' = Step("main_tx", t, 0, packet, NoSession, 0)
    /\ UNCHANGED <<stream, sessions, tasks, supervisors, dispatcher, codec, reversal, ciphers, request>>

\* respond: socket.send_to(&packet.to_bytes(), addr)
respond(packet, addr) == Datagram(addr, packet)

\* Mutant of the handler below: a Close is handled as the other packets are,
\* with sessions.get
handle_receive_internal_packet_get(packet) ==
    /\ out' = IF InTable(packet.session)
              THEN <<respond(packet, sessions[packet.session].address)>>
              ELSE <<>>
    /\ UNCHANGED <<sessions, tasks>>

\* handle_receive_internal_packet: a Close takes the entry out of the table
\* (which drops the Sender of the session's channel), the other packets look it
\* up; the packet is sent to the entry's address, and with no entry an error is
\* logged
handle_receive_internal_packet(packet) ==
    /\ out' = IF InTable(packet.session)
              THEN <<respond(packet, sessions[packet.session].address)>>
              ELSE <<>>
    /\ IF packet.kind = "Close" /\ InTable(packet.session)
       THEN /\ sessions' = Remove(sessions, packet.session)
            /\ tasks' = [tasks EXCEPT ![sessions[packet.session].task].tx_open = FALSE]
       ELSE UNCHANGED <<sessions, tasks>>

\* The second branch of select! in run: rx.recv() yields the packet at the head
\* of the internal channel
ReceiveInternal ==
    /\ dispatcher.pc = "recv"
    /\ rx # <<>>
    /\ rx' = Tail(rx)
    /\ handle_receive_internal_packet(Head(rx))
    /\ step' = Step("internal", 0, 0, Head(rx), NoSession, 0)
    /\ UNCHANGED <<stream, supervisors, dispatcher, codec, reversal, ciphers, request>>

\* What arrives at the socket: the Connects from address A, the Connect of
\* session 1 from address B as well, and the Close of session 1
ArrivalsOfConnects ==
    ({ Assemble(Framed(<<b_connect, to_string(id)>>)) : id \in SessionIds } \X {"A"})
        \cup ({Assemble(Framed(<<b_connect, to_string(1)>>))} \X {"B"})
        \cup ({Assemble(Framed(<<b_close, to_string(1)>>))} \X {"A"})

NextInternal ==
    \/ \E a \in ArrivalsOfConnects : ReadDatagram(a[1], a[2])
    \/ \E t \in 1..Len(tasks) : \E packet \in InternalPackets(tasks[t].id) : MainTxSend(t, packet)
    \/ ReceiveInternal
    \/ \E t \in 1..Len(tasks) : SessionRecv(t)
    \/ \E t \in 1..Len(tasks) : SessionRecvNone(t)

SpecInternal == InitWire /\ [][NextInternal]_vars

----------------------------------------------------------------------------
(* Cipher of insecure_sockets/protocol.rs: bytes encoded by one Cipher and *)
(* decoded by another                                                      *)

\* u8::reverse_bits, for width 8: bit i of the byte becomes bit 7 - i
RECURSIVE reverse_bits(_, _)
reverse_bits(byte, width) ==
    IF width = 0 THEN 0
    ELSE (byte % 2) * 2^(width - 1) + reverse_bits(byte \div 2, width - 1)

\* ^ on u8, for width 8, bit by bit
RECURSIVE xor(_, _, _)
xor(a, b, width) ==
    IF width = 0 THEN 0
    ELSE ((a + b) % 2) + 2 * xor(a \div 2, b \div 2, width - 1)

wrapping_add(byte, n) == (byte + n) % 256
wrapping_sub(byte, n) == (byte + 256 - n) % 256

\* position as u8: the low eight bits of the usize
as_u8(position) == position % 256

\* enum Operation: the variant, and the n of Xor and Add (0 for the others)
Operation(variant, n) == [op |-> variant, n |-> n]

\* One arm of the match in encode_byte
encode_operation(operation, byte, position) ==
    CASE operation.op = "ReverseBits" -> reverse_bits(byte, 8)
      [] operation.op = "Xor" -> xor(byte, operation.n, 8)
      [] operation.op = "XorPosition" -> xor(byte, as_u8(position), 8)
      [] operation.op = "Add" -> wrapping_add(byte, operation.n)
      [] operation.op = "AddPosition" -> wrapping_add(byte, as_u8(position))
      [] operation.op = "CipherEnd" -> byte

\* One arm of the match in decode_byte
decode_operation(operation, byte, position) ==
    CASE operation.op = "ReverseBits" -> reverse_bits(byte, 8)
      [] operation.op = "Xor" -> xor(byte, operation.n, 8)
      [] operation.op = "XorPosition" -> xor(byte, as_u8(position), 8)
      [] operation.op = "Add" -> wrapping_sub(byte, operation.n)
      [] operation.op = "AddPosition" -> wrapping_sub(byte, as_u8(position))
      [] operation.op = "CipherEnd" -> byte

\* for operation in operations { byte = ... }, with the arms of encode_byte
RECURSIVE encode_each(_, _, _)
encode_each(operations, byte, position) ==
    IF operations = <<>> THEN byte
    ELSE encode_each(Tail(operations),
                     encode_operation(Head(operations), byte, position), position)

\* for operation in operations { byte = ... }, with the arms of decode_byte
RECURSIVE decode_each(_, _, _)
decode_each(operations, byte, position) ==
    IF operations = <<>> THEN byte
    ELSE decode_each(Tail(operations),
                     decode_operation(Head(operations), byte, position), position)

\* Cipher::encode_byte: the Cipher after the call, and the byte returned
encode_byte(c, byte) ==
    [cipher |-> [c EXCEPT !.outgoing_position = @ + 1],
     byte |-> encode_each(c.cipher, byte, c.outgoing_position)]

\* Mutant of the method below: the operations are undone in the order of the
\* list, self.cipher.iter() without rev()
decode_byte_forward(c, input) ==
    [cipher |-> [c EXCEPT !.incoming_position = @ + 1],
     byte |-> decode_each(c.cipher, input, c.incoming_position)]

\* Cipher::decode_byte, with self.cipher.iter().rev(): the Cipher after the
\* call, and the byte returned
decode_byte(c, input) ==
    [cipher |-> [c EXCEPT !.incoming_position = @ + 1],
     byte |-> decode_each(Reverse(c.cipher), input, c.incoming_position)]

\* The operations of the test test_applying_operations, with the n of Xor and
\* Add at 1 and, for Add, at 0xFF
OperationSet ==
    { Operation("ReverseBits", 0), Operation("Xor", 1), Operation("XorPosition", 0),
      Operation("Add", 1), Operation("Add", 255), Operation("AddPosition", 0),
      Operation("CipherEnd", 0) }

RECURSIVE OperationLists(_)
OperationLists(n) ==
    IF n = 0 THEN {<<>>}
    ELSE LET shorter == OperationLists(n - 1)
         IN shorter \cup { Append(l, o) : l \in { x \in shorter : Len(x) = n - 1 },
                                          o \in OperationSet }

\* The positions with_position sets before the first byte: 0, as Cipher::new
\* leaves them, and 255, one byte before position as u8 wraps
StartPositions == {0, 255}

\* The bytes of the stream: 0, 'h', and 0xFF
PlainBytes == {0, 104, 255}

\* Two Ciphers of one operation list, the incoming position of the server's at
\* the outgoing position of the client's
InitCipher ==
    /\ stream = <<>>
    /\ sessions = <<>>
    /\ tasks = <<>>
    /\ supervisors = <<>>
    /\ out = <<>>
    /\ step = Step("init", 0, 0, NoMessage, NoSession, 0)
    /\ dispatcher = Receiving
    /\ codec = NoCodec
    /\ reversal = NoReversal
    /\ rx = <<>>
    /\ ciphers \in { Ciphers(Cipher(operations, 0, start), Cipher(operations, start, 0),
                             <<>>, <<>>, <<>>) :
                         operations \in OperationLists(MaxOperations) \ {<<>>},
                         start \in StartPositions }
    /\ request = NoRequest

\* client_cipher.encode_byte(byte): the encoded byte goes onto the wire
EncodeByte(byte) ==
    /\ Len(ciphers.plain) < MaxPlain
    /\ LET r == encode_byte(ciphers.client_cipher, byte)
       IN ciphers' = [ciphers EXCEPT !.client_cipher = r.cipher,
                                     !.plain = Append(@, byte),
                                     !.wire = Append(@, r.byte)]
    /\ UNCHANGED <<stream, sessions, tasks, supervisors, out, step, dispatcher, codec, reversal, rx, request>>

\* server_cipher.decode_byte(byte) of the next byte on the wire
DecodeByte ==
    /\ ciphers.wire # <<>>
    /\ LET r == decode_byte(ciphers.server_cipher, Head(ciphers.wire))
       IN ciphers' = [ciphers EXCEPT !.server_cipher = r.cipher,
                                     !.wire = Tail(@),
                                     !.decoded = Append(@, r.byte)]
    /\ UNCHANGED <<stream, sessions, tasks, supervisors, out, step, dispatcher, codec, reversal, rx, request>>

NextCipher ==
    \/ \E byte \in PlainBytes : EncodeByte(byte)
    \/ DecodeByte

SpecCipher == InitCipher /\ [][NextCipher]_vars

----------------------------------------------------------------------------
(* The toy jobs of insecure_sockets: handle_message of session.rs and of   *)
(* server.rs                                                               *)

\* struct Job
Job(toy, copies) == [toy |-> toy, copies |-> copies]

\* "x ", what stands between the copies and the toy
X_SPACE == <<120, 32>>

\* Display for Job: write!(f, "{}x {}", self.copies, self.toy)
Job_to_string(job) == to_string(job.copies) \o X_SPACE \o job.toy

\* parse_copies: digit1, then parse::<usize>().unwrap()
parse_copies(s) ==
    LET n == prefix_digits(s)
    IN IF n = 0 THEN NomErr ELSE NomOk(value_of(Take(s, n)), Drop(s, n))

\* many1(alt((alpha1, space1))) takes the longest prefix of letters, spaces
\* and tabs; this is its length
RECURSIVE prefix_alpha_space(_)
prefix_alpha_space(input) ==
    IF input = <<>> THEN 0
    ELSE LET c == input[1]
             alpha == (c >= 65 /\ c <= 90) \/ (c >= 97 /\ c <= 122)
             space == c \in {32, 9}
         IN IF alpha \/ space THEN 1 + prefix_alpha_space(Tail(input)) ELSE 0

\* parse_toy: many1(is_not(",")) in session.rs, many1(alt((alpha1, space1))) in
\* server.rs, the pieces joined
parse_toy(impl, s) ==
    LET n == IF impl = "session" THEN prefix_not(s, {COMMA}) ELSE prefix_alpha_space(s)
    IN IF n = 0 THEN NomErr ELSE NomOk(Take(s, n), Drop(s, n))

\* parse_job: separated_pair(parse_copies, tag("x "), parse_toy)
parse_job(impl, s) ==
    LET copies == parse_copies(s)
    IN IF ~copies.ok THEN NomErr
       ELSE IF Take(copies.rest, 2) # X_SPACE THEN NomErr
       ELSE LET toy == parse_toy(impl, Drop(copies.rest, 2))
            IN IF ~toy.ok THEN NomErr
               ELSE NomOk(Job(toy.value, copies.value), toy.rest)

\* The loop of separated_list1 after the first job: a comma and a job are taken
\* together or not at all
RECURSIVE more_jobs(_, _)
more_jobs(impl, s) ==
    IF s = <<>> \/ s[1] # COMMA THEN <<>>
    ELSE LET job == parse_job(impl, Tail(s))
         IN IF ~job.ok THEN <<>> ELSE <<job.value>> \o more_jobs(impl, job.rest)

\* parse_message: separated_list1(tag(","), parse_job); what follows the list
\* is dropped
parse_message(impl, message) ==
    LET first == parse_job(impl, message)
    IN IF ~first.ok THEN [ok |-> FALSE, jobs |-> <<>>]
       ELSE [ok |-> TRUE, jobs |-> <<first.value>> \o more_jobs(impl, first.rest)]

\* jobs.sort(): a stable sort with Ord for Job, which compares copies
RECURSIVE sort(_)
sort(jobs) ==
    IF jobs = <<>> THEN <<>>
    ELSE LET last == jobs[Len(jobs)]
             sorted == sort(Take(jobs, Len(jobs) - 1))
             kept == Cardinality({ i \in 1..Len(sorted) : sorted[i].copies <= last.copies })
         IN Take(sorted, kept) \o <<last>> \o Drop(sorted, kept)

\* handle_message: jobs.iter().rev().take(1) in session.rs, jobs.iter().take(1)
\* in server.rs, of the sorted jobs
handle_message_jobs(impl, message) ==
    LET parsed == parse_message(impl, message)
        jobs == sort(parsed.jobs)
    IN IF ~parsed.ok THEN [ok |-> FALSE, response |-> <<>>]
       ELSE [ok |-> TRUE,
             response |-> Job_to_string(IF impl = "session" THEN jobs[Len(jobs)]
                                        ELSE jobs[1])]

\* Jobs of the toys "a" and "b c", with 4, 10 and 15 copies
JobSet == { Job(toy, copies) : toy \in {<<97>>, <<98, 32, 99>>}, copies \in {4, 10, 15} }

RECURSIVE JobLists(_)
JobLists(n) ==
    IF n = 0 THEN {<<>>}
    ELSE LET shorter == JobLists(n - 1)
         IN shorter \cup { Append(l, j) : l \in { x \in shorter : Len(x) = n - 1 },
                                          j \in JobSet }

\* The jobs written as the client writes them: "Nx toy" joined by commas
RECURSIVE MessageOf(_)
MessageOf(jobs) ==
    IF Len(jobs) = 1 THEN Job_to_string(jobs[1])
    ELSE MessageOf(Take(jobs, Len(jobs) - 1)) \o <<COMMA>> \o Job_to_string(jobs[Len(jobs)])

InitToys ==
    /\ stream = <<>>
    /\ sessions = <<>>
    /\ tasks = <<>>
    /\ supervisors = <<>>
    /\ out = <<>>
    /\ step = Step("init", 0, 0, NoMessage, NoSession, 0)
    /\ dispatcher = Receiving
    /\ codec = NoCodec
    /\ reversal = NoReversal
    /\ rx = <<>>
    /\ ciphers = NoCiphers
    /\ request \in { Request("received", "none", MessageOf(jobs), FALSE, <<>>) :
                         jobs \in JobLists(MaxJobs) \ {<<>>} }

\* handle_message of session.rs or of server.rs applied to the message
HandleMessage(impl) ==
    /\ request.pc = "received"
    /\ LET r == handle_message_jobs(impl, request.message)
       IN request' = [request EXCEPT !.pc = "handled", !.impl = impl,
                                     !.ok = r.ok, !.response = r.response]
    /\ UNCHANGED <<stream, sessions, tasks, supervisors, out, step, dispatcher, codec, reversal, rx, ciphers>>

NextToys ==
    \/ HandleMessage("session")
    \/ HandleMessage("server")

SpecToys == InitToys /\ [][NextToys]_vars

----------------------------------------------------------------------------
(* Properties *)

\* The last step was the handling of a message of this kind by a session task
Handled(kind) == step.op = "handle" /\ step.msg.kind = kind

\* The session of the last step, as it is now
Now == tasks[step.task]

SentClose(s) == Datagram(s.address, new_close(s.id))

RECURSIVE PayloadBytes(_)
PayloadBytes(messages) ==
    IF messages = <<>> THEN 0
    ELSE Len(Head(messages).data) + PayloadBytes(Tail(messages))

\* The Data chunks session task t has queued, in the order it queued them
RECURSIVE ChunksOf(_, _)
ChunksOf(t, sups) ==
    IF sups = <<>> THEN <<>>
    ELSE (IF Head(sups).task = t THEN Head(sups).messages ELSE <<>>) \o ChunksOf(t, Tail(sups))

\* C1: a session the dispatcher has created for a Connect, once its task has
\* nothing left to take from its queue, is Connected (and so has sent Ack 0).
C1_ConnectAnswered ==
    \A id \in DOMAIN sessions :
        LET s == tasks[sessions[id].task]
        IN (s.running /\ s.message_rx = <<>>) => s.connected

\* C2: every outbound chunk queued by the session is transmitted at least once:
\* a retransmission task that has ended has handed to the socket each chunk of
\* its batch that the peer has not acknowledged.
C2_QueuedChunkTransmitted ==
    \A k \in 1..Len(supervisors) :
        LET sup == supervisors[k]
        IN ~sup.running =>
               \A i \in 1..Len(sup.messages) :
                   tasks[sup.task].bytes_acked < sup.messages[i].position + Len(sup.messages[i].data)
                       => sup.transmitted[i]

\* What a byte of the peer's stream is in data: itself when it is ASCII, U+FFFD
\* when it is a byte that is valid nowhere in UTF-8
Utf8Char(b) == IF b < 128 THEN b ELSE REPL

C4_GapReAck ==
    (Handled("Data") /\ step.pre.connected /\ step.msg.position > step.pre.bytes_received)
        => /\ Now.bytes_received = step.pre.bytes_received
           /\ Now.data = step.pre.data
           /\ out = <<Datagram(step.pre.address, new_ack(step.pre.id, step.pre.bytes_received))>>

C4_Witness ==
    /\ Handled("Data") /\ step.pre.connected
    /\ step.msg.position > step.pre.bytes_received
    /\ ~step.pre.rx_closed

\* C5: a Data chunk that is already fully covered (position + length <=
\* bytes_received) leaves bytes_received and data as they were and queues no
\* outbound line.
C5_DuplicateSuppressed ==
    (Handled("Data") /\ step.pre.connected
         /\ step.msg.position + Len(step.msg.data) <= step.pre.bytes_received)
        => /\ Now.bytes_received = step.pre.bytes_received
           /\ Now.data = step.pre.data
           /\ step.spawned = 0

\* C5, witness: a covered chunk that holds a newline has been handled while
\* data was holding an unfinished line
C5_Witness ==
    /\ Handled("Data") /\ step.pre.connected
    /\ step.msg.position + Len(step.msg.data) <= step.pre.bytes_received
    /\ Contains(step.msg.data, NL)
    /\ step.pre.data # <<>>

\* The session task of the last step takes no further message from its queue:
\* it has ended, or its channel is closed and empty
Stopped == ~Now.running \/ (Now.rx_closed /\ Now.message_rx = <<>>)

\* C6: an Ack with position > bytes_sent, handled by an open Connected session,
\* closes it: one Close goes to the peer, bytes_acked is as it was, and the
\* session stops.
C6_AckBeyondSentCloses ==
    (Handled("Ack") /\ step.pre.connected /\ ~step.pre.rx_closed
         /\ step.msg.position > step.pre.bytes_sent)
        => /\ out = <<SentClose(step.pre)>>
           /\ Now.bytes_acked = step.pre.bytes_acked
           /\ Stopped

\* C7: an Ack whose position is at most the number of payload bytes the session
\* has queued in Data chunks is accepted by a Connected session: the session
\* does not close, no Close is sent, and bytes_acked becomes
\* max(bytes_acked, position).
C7_AckOfEmittedAccepted ==
    (Handled("Ack") /\ step.pre.connected /\ ~step.pre.rx_closed
         /\ step.msg.position <= PayloadBytes(ChunksOf(step.task, supervisors)))
        => /\ ~Now.rx_closed
           /\ out = <<>>
           /\ Now.bytes_acked = Max(step.pre.bytes_acked, step.msg.position)

C9_PositionsContiguous ==
    \A t \in 1..Len(tasks) :
        LET cs == ChunksOf(t, supervisors)
        IN /\ \A i \in 1..Len(cs) : cs[i].position = PayloadBytes(Take(cs, i - 1))
           /\ tasks[t].bytes_sent = PayloadBytes(cs)

\* C10: a tick of a retransmission task sends every chunk of its batch whose
\* position is >= bytes_acked, and sends nothing but messages of the batch.
C10_UncoveredChunkResent ==
    step.op = "tick" =>
        LET sup == supervisors[step.sup]
        IN /\ \A i \in 1..Len(sup.messages) :
                  sup.messages[i].position >= tasks[sup.task].bytes_acked
                      => \E j \in 1..Len(out) : out[j] = Datagram(sup.address, sup.messages[i])
           /\ \A j \in 1..Len(out) :
                  \E i \in 1..Len(sup.messages) : out[j] = Datagram(sup.address, sup.messages[i])

\* The acknowledged prefix covers a chunk
ChunkCovered(message, acked) == acked >= message.position + Len(message.data)

\* C11: a tick of a retransmission task that finds every chunk of its batch
\* covered by bytes_acked sends nothing and ends the task, and a tick that finds
\* a chunk of its batch uncovered while the session is open does not end it.
C11_ExitsOnlyWhenCovered ==
    step.op = "tick" =>
        LET sup == supervisors[step.sup]
            all_covered == \A i \in 1..Len(sup.messages) :
                               ChunkCovered(sup.messages[i], Now.bytes_acked)
        IN /\ all_covered => (out = <<>> /\ ~sup.running)
           /\ (~all_covered /\ Now.running /\ ~Now.rx_closed) => sup.running

\* C12: once the dispatcher has handled a Close for an id of its table, the id
\* is out of the table and the Close is the last packet of the session's queue;
\* and a session that handles a Close sends one Close to its peer.
C12_CloseAnswered ==
    /\ (step.op \in {"close", "resume"} /\ step.msg.kind = "Close") =>
           /\ step.msg.session \notin DOMAIN sessions
           /\ Now.message_rx # <<>>
           /\ Now.message_rx[Len(Now.message_rx)] = step.msg
    /\ Handled("Close") => out = <<SentClose(step.pre)>>

\* read_packet makes a packet of one of these kinds of the datagram
Reads(bytes, kinds) ==
    read_packet[bytes].result = "ok" /\ read_packet[bytes].packet.kind \in kinds

\* The session id of the packet read_packet makes of the datagram
IdOf(bytes) == read_packet[bytes].packet.session

\* C13: a step that adds an id to the table or starts a session task is the
\* reading of a Connect for an id that is not in the table; and the reading of a
\* Data, Ack or Close for an id that is not in the table leaves the table and
\* the session tasks as they are and sends no datagram.
C13_OnlyConnectCreates ==
    [][/\ (Len(tasks') > Len(tasks) \/ ~(DOMAIN sessions' \subseteq DOMAIN sessions)) =>
              \E a \in Arrivals :
                  /\ Reads(a[1], {"Connect"})
                  /\ IdOf(a[1]) \notin DOMAIN sessions
                  /\ ReadDatagram(a[1], a[2])
       /\ \A a \in Arrivals :
              (/\ Reads(a[1], {"Data", "Ack", "Close"})
               /\ IdOf(a[1]) \notin DOMAIN sessions
               /\ ReadDatagram(a[1], a[2]))
                  => /\ sessions' = sessions
                     /\ tasks' = tasks
                     /\ supervisors' = supervisors
                     /\ out' = <<>>]_vars

\* C13, witness: a Data for an id that is not in the table has been read while
\* the table was holding another session
C13_Witness ==
    /\ step.op = "unknown" /\ step.msg.kind = "Data"
    /\ DOMAIN sessions # {}
    /\ dispatcher.pc = "recv"

\* C14: the reading of a Connect for an id that is in the table leaves the
\* table (the entry's task and address), every session task (its queue, its
\* connected flag, its counters, its buffer) and the retransmission tasks as
\* they are, starts no task and sends no datagram.
C14_KnownConnectIgnored ==
    [][\A a \in Arrivals :
           (/\ Reads(a[1], {"Connect"})
            /\ IdOf(a[1]) \in DOMAIN sessions
            /\ ReadDatagram(a[1], a[2]))
               => /\ sessions' = sessions
                  /\ tasks' = tasks
                  /\ supervisors' = supervisors
                  /\ out' = <<>>]_vars

\* C14, witness: a Connect has been read for an id of the table whose session
\* has a packet waiting in its queue
C14_Witness ==
    /\ step.op = "connect_known"
    /\ step.msg.session \in DOMAIN sessions
    /\ Now.message_rx # <<>>

\* C15: when the connection timeout has passed with no message for a session,
\* the session has closed and has sent one Close to its peer.
C15_IdleSessionCloses ==
    step.op = "timeout" => (Now.rx_closed /\ out = <<SentClose(step.pre)>>)

\* C16: after the reading of a packet for a session whose queue is full, the
\* dispatcher holds no packet and is receiving again.
C16_FullQueueDrops ==
    step.op = "full" => dispatcher = Receiving

\* C17: the reading of a malformed datagram leaves the table, the session tasks
\* and the retransmission tasks as they are, sends no datagram, and leaves the
\* dispatcher receiving.
C17_MalformedDiscarded ==
    [][\A a \in Arrivals :
           (a[1] \in MalformedDatagrams /\ ReadDatagram(a[1], a[2]))
               => /\ sessions' = sessions
                  /\ tasks' = tasks
                  /\ supervisors' = supervisors
                  /\ out' = <<>>
                  /\ dispatcher' = Receiving]_vars

IsData(message) == message.kind = "Data"

\* A field that is a decimal integer of the grammar: digits only, at least one,
\* no larger than u32::MAX
IsDecimal(field) ==
    /\ field # <<>>
    /\ \A i \in 1..Len(field) : IsDigit(field[i])
    /\ ~exceeds(field, U32_MAX)

\* The decimal integer is written without leading zeros
IsCanonicalInt(field) == IsDecimal(field) /\ (Len(field) = 1 \/ field[1] # ZERO)

\* The datagram has both slashes, a known type and as many fields as the type
\* takes (the DATA field not empty, and escaped, as every DATA field of the
\* model is)
WellFramed(fields) ==
    /\ fields.lead = <<SLASH>> /\ fields.trail = <<SLASH>>
    /\ LET segments == fields.segments
       IN \/ Len(segments) = 2 /\ segments[1] \in {b_connect, b_close}
          \/ Len(segments) = 3 /\ segments[1] = b_ack
          \/ Len(segments) = 4 /\ segments[1] = b_data /\ segments[4] # <<>>

\* The integer fields of a well-framed datagram
IntegersOf(fields) == { fields.segments[i] : i \in 2..Min(3, Len(fields.segments)) }

IsCanonical(fields) ==
    WellFramed(fields) /\ \A field \in IntegersOf(fields) : IsCanonicalInt(field)

C20_BadIntegerRejected ==
    (/\ codec.pc = "decoded"
     /\ WellFramed(codec.fields)
     /\ \E field \in IntegersOf(codec.fields) : ~IsDecimal(field))
        => codec.decoded = DecodeErr

\* The datagram is a data packet with its four fields and both slashes, and its
\* DATA field has no byte
EmptyDataSegment(fields) ==
    /\ fields.lead = <<SLASH>> /\ fields.trail = <<SLASH>>
    /\ Len(fields.segments) = 4
    /\ fields.segments[1] = b_data
    /\ fields.segments[4] = <<>>

\* C21: a data packet with an empty DATA field decodes to an error; and no
\* decoder makes a Data message with an empty payload of any datagram.
C21_EmptyDataRejected ==
    codec.pc = "decoded" =>
        /\ EmptyDataSegment(codec.fields) => codec.decoded = DecodeErr
        /\ (codec.decoded.result = "ok" /\ IsData(codec.decoded.packet))
               => codec.decoded.packet.data # <<>>

\* The index of the k-th newline of str (0 for k = 0)
EndOf(str, k) ==
    IF k = 0 THEN 0
    ELSE CHOOSE i \in 1..Len(str) :
             str[i] = NL /\ Cardinality({j \in 1..i : str[j] = NL}) = k

\* The k-th line of str: what follows the newline before it, up to and with its
\* own newline
Line(str, k) == SubSeq(str, EndOf(str, k - 1) + 1, EndOf(str, k))

\* The payload bytes of a batch of Data messages, in batch order
RECURSIVE Payload(_)
Payload(messages) ==
    IF messages = <<>> THEN <<>> ELSE Head(messages).data \o Payload(Tail(messages))

C23_ClosedIsTerminal ==
    step.op = "handle" => ~step.pre.rx_closed

\* C24: when a session that has handled no Connect handles a Data or an Ack, it
\* sends one Close and nothing else, its receiver is closed, and its connected
\* flag, its buffer and its counters are as before, and it starts no
\* retransmission task.
C24_PendingViolationCloses ==
    (step.op = "handle" /\ step.msg.kind \in {"Data", "Ack"} /\ ~step.pre.connected) =>
        /\ out = <<SentClose(step.pre)>>
        /\ Now.rx_closed
        /\ ~Now.connected
        /\ Now.data = step.pre.data
        /\ Now.bytes_received = step.pre.bytes_received
        /\ Now.bytes_sent = step.pre.bytes_sent
        /\ Now.bytes_acked = step.pre.bytes_acked
        /\ step.spawned = 0

\* C24, witness: a session that has handled no message at all has handled a
\* Data message that starts at 0 and holds a whole line
C24_Witness ==
    /\ Handled("Data") /\ ~step.pre.connected /\ ~step.pre.rx_closed
    /\ step.msg.position = 0 /\ Contains(step.msg.data, NL)
    /\ Now.rx_closed

\* C25: the id of a session that has closed itself is no longer in the table, so
\* no Connect is ignored as known for the id of a session that has closed itself
\* (the dispatcher removes the entry itself when it passes on a peer's Close, so
\* a closed session still in the table has closed on a violation).
C25_ViolationRemovesEntry ==
    step.op = "connect_known" => ~Now.rx_closed

\* C26: a tick of a retransmission task whose session has closed sends nothing
\* and ends the task, acknowledged or not; and no step sends a Data datagram of
\* a session that has closed.
C26_SupervisorEndsWithSession ==
    /\ (step.op = "tick" /\ step.pre.rx_closed) =>
           (out = <<>> /\ ~supervisors[step.sup].running)
    /\ \A i \in 1..Len(out) :
           out[i].message.kind = "Data" =>
               \A t \in 1..Len(tasks) :
                   tasks[t].id = out[i].message.session => ~tasks[t].rx_closed

\* C26, witness: the retransmission task of a line has had its first tick after
\* its session closed, with nothing of the line acknowledged
C26_Witness ==
    /\ step.op = "tick" /\ step.pre.rx_closed
    /\ supervisors[step.sup].messages # <<>>
    /\ step.pre.bytes_acked < PayloadBytes(supervisors[step.sup].messages)
    /\ \A i \in 1..Len(supervisors[step.sup].messages) : ~supervisors[step.sup].transmitted[i]

\* C27: a message sent to a session's channel is the last of its queue; and the
\* message a session handles is the first of its queue, and the handling takes
\* that one message off the queue and leaves the others in their order.
C27_FifoPerSession ==
    /\ step.op = "send" =>
           (Now.message_rx # <<>> /\ Now.message_rx[Len(Now.message_rx)] = step.msg)
    /\ step.op = "handle" =>
           /\ step.pre.message_rx # <<>>
           /\ step.msg = Head(step.pre.message_rx)
           /\ Now.message_rx = Tail(step.pre.message_rx)

\* C27, witness: a session has handled the first of two different messages
\* waiting in its queue
C27_Witness ==
    /\ step.op = "handle"
    /\ Len(step.pre.message_rx) = 2
    /\ step.pre.message_rx[1] # step.pre.message_rx[2]
    /\ Now.message_rx = <<step.pre.message_rx[2]>>

\* C28: a session task whose socket send has failed is still running (the
\* failure ended neither the task nor, with it, anything else).
C28_FailedSendAbandoned ==
    step.op = "send_fails" => (Now.running /\ ~Now.panicked)

\* C29: a session task that has ended has ended by returning from run, not by a
\* panic.
C29_LoopEndsNormally ==
    \A t \in 1..Len(tasks) : ~tasks[t].running => ~tasks[t].panicked

\* The strings of a sequence joined in order
RECURSIVE Concat(_)
Concat(strings) ==
    IF strings = <<>> THEN <<>> ELSE Head(strings) \o Concat(Tail(strings))

\* C30: the chunks made of a reversed line hold between 1 and 900 payload bytes
\* each, joined in order they are the reversed line, and the reversed line is
\* the chars of the line before its newline in reverse order, then one newline.
C30_ChunksRebuildLine ==
    reversal.pc = "chunked" =>
        /\ \A i \in 1..Len(reversal.chunks) :
               Len(as_bytes(reversal.chunks[i])) \in 1..CHUNK_SIZE
        /\ Concat(reversal.chunks) = reversal.reversed
        /\ reversal.reversed = Reverse(Take(reversal.line, Len(reversal.line) - 1)) \o <<NL>>

\* The positions of the Acks among the datagrams of the last step
AckPositions ==
    { out[i].message.position : i \in { j \in 1..Len(out) : out[j].message.kind = "Ack" } }

C32_AddressFixed ==
    [][/\ \A id \in DOMAIN sessions \cap DOMAIN sessions' :
              sessions'[id].address = sessions[id].address
       /\ \A t \in 1..Len(tasks) : tasks'[t].address = tasks[t].address
       /\ \A i \in 1..Len(out') : out'[i].to = tasks[step'.task].address
       /\ Len(tasks') > Len(tasks) =>
              \E a \in ArrivalsOfSession :
                  /\ Reads(a[1], {"Connect"})
                  /\ IdOf(a[1]) \in DOMAIN sessions'
                  /\ sessions'[IdOf(a[1])].address = a[2]
                  /\ tasks'[Len(tasks')].address = a[2]
                  /\ ReadDatagram(a[1], a[2])]_vars

\* /ack/1/1/, which only address B sends, has been forwarded to session 1, and
\* the entry and the task of session 1 still carry address A
C32_Witness ==
    /\ step.op = "forward"
    /\ step.msg = new_ack(1, 1)
    /\ InTable(1)
    /\ sessions[1].address = "A"
    /\ tasks[step.task].address = "A"

\* C33: in every state of a session bytes_acked <= bytes_sent; the handling of
\* an Ack stores the position only if it is not beyond bytes_sent, and an Ack
\* beyond bytes_sent leaves bytes_acked as it was.
C33_AckedWithinSent ==
    /\ \A t \in 1..Len(tasks) : tasks[t].bytes_acked <= tasks[t].bytes_sent
    /\ (Handled("Ack") /\ ack_beyond_sent(step.pre, step.msg.position)) =>
           Now.bytes_acked = step.pre.bytes_acked

\* A connected session has handled an Ack that is not beyond bytes_sent and has
\* stored its position
C33_Witness ==
    /\ Handled("Ack")
    /\ step.pre.connected
    /\ ~ack_beyond_sent(step.pre, step.msg.position)
    /\ Now.bytes_acked = step.msg.position
    /\ ~Now.rx_closed

\* C34: between the handling of two messages the buffer of a session, data,
\* holds no newline byte and is no longer, in bytes, than bytes_received.
C34_BufferWithinReceived ==
    \A t \in 1..Len(tasks) :
        /\ ~Contains(as_bytes(tasks[t].data), NL)
        /\ Len(as_bytes(tasks[t].data)) <= tasks[t].bytes_received

\* C35: when the dispatcher dequeues an internal packet whose session id is not
\* in the table, it sends nothing and leaves the table as it is; when it
\* dequeues an internal Close whose session id is in the table, it sends the
\* Close to the address of the entry and removes the entry.
C35_InternalPacketNeedsEntry ==
    [][(rx # <<>> /\ ReceiveInternal) =>
           /\ ~InTable(Head(rx).session) => (out' = <<>> /\ sessions' = sessions)
           /\ (InTable(Head(rx).session) /\ Head(rx).kind = "Close") =>
                  /\ out' = <<Datagram(sessions[Head(rx).session].address, Head(rx))>>
                  /\ sessions' = Remove(sessions, Head(rx).session)
                  /\ ~(Head(rx).session \in DOMAIN sessions')]_vars

\* An internal Close of session 1, whose entry carried address B, has been
\* dequeued: it went to address B and the entry is gone
C35_Witness ==
    /\ step.op = "internal"
    /\ step.msg = new_close(1)
    /\ out = <<Datagram("B", new_close(1))>>
    /\ ~InTable(1)

\* C36: the bytes the server's Cipher has decoded are the first bytes the
\* client's Cipher encoded, in order; a step that encodes a byte adds one to the
\* client's outgoing_position and changes nothing else of either Cipher, and a
\* step that decodes a byte adds one to the server's incoming_position and
\* changes nothing else of either Cipher.
C36_DecodeUndoesEncode ==
    [][/\ ciphers'.decoded = Take(ciphers'.plain, Len(ciphers'.decoded))
       /\ Len(ciphers'.plain) > Len(ciphers.plain) =>
              /\ ciphers'.client_cipher =
                     [ciphers.client_cipher EXCEPT !.outgoing_position = @ + 1]
              /\ ciphers'.server_cipher = ciphers.server_cipher
       /\ Len(ciphers'.decoded) > Len(ciphers.decoded) =>
              /\ ciphers'.server_cipher =
                     [ciphers.server_cipher EXCEPT !.incoming_position = @ + 1]
              /\ ciphers'.client_cipher = ciphers.client_cipher]_vars

\* Two bytes have gone through AddPosition then Xor 1 and back, the second at a
\* position beyond 255
C36_Witness ==
    /\ ciphers.client_cipher.cipher = <<Operation("AddPosition", 0), Operation("Xor", 1)>>
    /\ Len(ciphers.decoded) >= 2
    /\ ciphers.decoded = ciphers.plain
    /\ ciphers.client_cipher.outgoing_position > 256
    /\ ciphers.server_cipher.incoming_position = ciphers.client_cipher.outgoing_position

\* The jobs of a message of "Nx toy" jobs joined by commas, read by the commas
\* and the first "x " of each job
RECURSIVE JobsIn(_)
JobsIn(message) ==
    LET n == prefix_not(message, {COMMA})
        text == Take(message, n)
        d == prefix_digits(text)
        job == Job(Drop(text, d + 2), value_of(Take(text, d)))
    IN IF n = Len(message) THEN <<job>> ELSE <<job>> \o JobsIn(Drop(message, n + 1))

\* C37: handle_message applied to a comma-separated list of "Nx toy" jobs
\* returns Ok with a job of the list that no job of the list has more copies
\* than, written as "Nx toy".
C37_LargestJobReturned ==
    request.pc = "handled" =>
        /\ request.ok
        /\ \E i \in 1..Len(JobsIn(request.message)) :
               /\ request.response = Job_to_string(JobsIn(request.message)[i])
               /\ \A j \in 1..Len(JobsIn(request.message)) :
                      JobsIn(request.message)[j].copies <= JobsIn(request.message)[i].copies

====
